---------------------------- MODULE Spec2Model ----------------------------
(***************************************************************************)
(* Model of scripts/flows/houston/read_excel.py: the Prefect flow          *)
(* ingest_to_dataverse, its sub-flow process_item and the tasks and        *)
(* helpers they call.                                                      *)
(*                                                                         *)
(* Encoding of Python values.  A str is a sequence of one-character        *)
(* strings.  None is the one-element sequence None below, which no str     *)
(* equals because "None" is not a character.  A dict is a function whose   *)
(* DOMAIN is its key set; a key that is absent is not in the DOMAIN.       *)
(* A list of str is a sequence of sequences; separate_list's None result   *)
(* is NoneList.                                                            *)
(***************************************************************************)
EXTENDS Integers, Sequences, FiniteSets, TLC

VARIABLES
    newspaper_orig_data, \* publication-level JSON blob (list of dicts)
    issue_data,          \* issue-level JSON blob (list of dicts)
    bucket,              \* object storage: the keys, in listing order
    newspaper_data,      \* ingest_to_dataverse: the Publication Context Index
    idx,                 \* ingest_to_dataverse: position of `for item in issue_data`
    pc,                  \* where the flow stands
    asset,               \* map_item_to_metadata: the dict posted to the mapper
    metadata,            \* process_item: mapper response
    filenames,           \* process_item: result of split_filenames
    todo,                \* retrieve_files_for_metadata: keys not yet iterated
    acc,                 \* retrieve_files_for_metadata: local list `files`
    files,               \* process_item: result of retrieve_files_for_metadata
    doi,                 \* process_item: persistent identifier
    nfile,               \* process_item: position of `for f in files`
    calls,               \* every remote call made so far, in order
    issued               \* repository: persistent identifiers minted so far

vars == <<newspaper_orig_data, issue_data, bucket, newspaper_data, idx, pc,
          asset, metadata, filenames, todo, acc, files, doi, nfile, calls,
          issued>>

inputs == <<newspaper_orig_data, issue_data, bucket>>

-----------------------------------------------------------------------------
(* Bounds of the model *)

MaxItems == 2      \* longest issue_data of a run
MaxKeys == 2       \* keys one list_objects_v2 response holds (S3: 1000)
MaxPubs == 2       \* longest newspaper_orig_data
MaxTagLen == 3     \* longest Tags / Tags [SPAN] string
MaxPagesLen == 2   \* longest Pages string

-----------------------------------------------------------------------------
(* Python values *)

None == <<"None">>
NoneList == <<None>>
EmptyDict == [x \in {} |-> None]
NoDoi == 0

Strings(chars, n) == UNION {[1..m -> chars] : m \in 0..n}

\* bool(v) of an Optional[str]
Truthy(v) == v # None /\ v # <<>>

\* dict.get(key) and dict.get(key, default)
GetOr(d, key, default) == IF key \in DOMAIN d THEN d[key] ELSE default
Get(d, key) == GetOr(d, key, None)

\* the dicts with exactly the keys of the choice c that are not "absent":
\* c maps each key to a value or to Absent
Absent == <<"absent">>
DictOf(c) == [key \in {x \in DOMAIN c : c[x] # Absent} |-> c[key]]

IsSpace(ch) == ch = " "

RECURSIVE LStrip(_)
LStrip(s) ==
    IF s # <<>> /\ IsSpace(Head(s)) THEN LStrip(Tail(s)) ELSE s

RECURSIVE RStrip(_)
RStrip(s) ==
    IF s # <<>> /\ IsSpace(s[Len(s)]) THEN RStrip(SubSeq(s, 1, Len(s) - 1)) ELSE s

\* str.strip()
Strip(s) == RStrip(LStrip(s))

\* str.split(sep): always at least one segment
RECURSIVE Split(_, _)
Split(s, sep) ==
    IF \E j \in 1..Len(s) : s[j] = sep
    THEN LET j == CHOOSE n \in 1..Len(s) :
                      s[n] = sep /\ \A m \in 1..(n - 1) : s[m] # sep
         IN  <<SubSeq(s, 1, j - 1)>> \o Split(SubSeq(s, j + 1, Len(s)), sep)
    ELSE <<s>>

IsPrefix(p, s) == Len(p) <= Len(s) /\ SubSeq(s, 1, Len(p)) = p

Range(s) == {s[j] : j \in DOMAIN s}

-----------------------------------------------------------------------------
(* Helpers (plain Python funcs) *)

\* separate_list(content)
separate_list(content) ==
    IF ~Truthy(content)
    THEN NoneList
    ELSE LET parts == Split(content, ";")
             stripped == [j \in 1..Len(parts) |-> Strip(parts[j])]
         IN  SelectSeq(stripped, LAMBDA item : item # <<>>)

\* bool(l) and (l or []) of an Optional[List[str]]
ListTruthy(l) == l # NoneList /\ l # <<>>
OrEmpty(l) == IF ListTruthy(l) THEN l ELSE <<>>

\* transform_newspaper_level_fn: the dict after the first n items of the loop
RECURSIVE TransformUpTo(_, _)
TransformUpTo(orig, n) ==
    IF n = 0
    THEN EmptyDict
    ELSE LET item == orig[n]
             ident == Get(item, "Identifier")
             before == TransformUpTo(orig, n - 1)
         IN  IF Truthy(ident) THEN (ident :> item) @@ before ELSE before

\* an index that keeps the first record of an identifier
transform_newspaper_level_fn_FirstWins(orig) ==
    TransformUpTo([j \in 1..Len(orig) |-> orig[Len(orig) + 1 - j]], Len(orig))

transform_newspaper_level_fn(orig) == TransformUpTo(orig, Len(orig))

Placeholder == <<"p", "l", "a", "c", "e", "h", "o", "l", "d", "e", "r">>

\* a lookup that hands back whatever dict.get gave it
ValueOrPlaceholder_NoDefault(value) == value

\* `value if value is not None else "placeholder"`
ValueOrPlaceholder(value) == IF value # None THEN value ELSE Placeholder

\* retrieve_from_newspaper_level_fn(identifier, field_name, newspaper_data)
retrieve_from_newspaper_level_fn(identifier, field_name, nd) ==
    LET data == IF identifier \in DOMAIN nd /\ DOMAIN nd[identifier] # {}
                THEN nd[identifier]
                ELSE EmptyDict
        value == Get(data, field_name)
    IN  ValueOrPlaceholder(value)

-----------------------------------------------------------------------------
(* map_item_to_metadata: the normalized asset *)

CreatorKey ==
    "'Creator (Alternative Title: Publisher? Most often printed as \"Director\" or \"Owner\")"

\* a field that is set whatever its source holds
SetIf_Unconditional(cond, key, value) == key :> value

\* asset[key] = value, set only under `if cond:`
SetIf(cond, key, value) == IF cond THEN key :> value ELSE EmptyDict

\* the two description fields
Descriptions(item, nd) ==
    LET identifier == GetOr(item, "Identifier", <<>>)
    IN  [description |->
             retrieve_from_newspaper_level_fn(identifier, "Abstract", nd),
         description_spanish |->
             retrieve_from_newspaper_level_fn(identifier, "Abstract [SPAN]", nd)]

\* the two lists concatenated the other way round
KeywordList_NativeFirst(tags, tags_spanish) == OrEmpty(tags) \o OrEmpty(tags_spanish)

\* [*(tags_spanish or []), *(tags or [])]
KeywordList(tags, tags_spanish) == OrEmpty(tags_spanish) \o OrEmpty(tags)

\* `if tags or tags_spanish:`
HasKeywords(tags, tags_spanish) == ListTruthy(tags) \/ ListTruthy(tags_spanish)

\* the optional scalar fields
OptionalFields(item) ==
    SetIf(Truthy(Get(item, "Language")), "language", Get(item, "Language"))
    @@ SetIf(Truthy(Get(item, "Single Dates")), "production_date",
             Get(item, "Single Dates"))
    @@ SetIf(Truthy(Get(item, "Coverage-Spatial")), "production_place",
             Get(item, "Coverage-Spatial"))
    @@ SetIf(Truthy(Get(item, "Issue Title [SPAN]")), "issue_title_spanish",
             Get(item, "Issue Title [SPAN]"))
    @@ SetIf(Truthy(Get(item, "Type of Periodical [SPAN]")),
             "publicationtype_spanish", Get(item, "Type of Periodical [SPAN]"))

NormalizedAsset(item, nd) ==
    LET tags == separate_list(Get(item, "Tags"))
        tags_spanish == separate_list(Get(item, "Tags [SPAN]"))
    IN  [title |-> Get(item, "Issue Title"),
         title_spanish |-> Get(item, "Issue Title [SPAN]"),
         alternative_title |-> Get(item, "Title Alternative"),
         alternative_title_spanish |-> Get(item, "Title Alternative [SPAN]"),
         issue_title |-> Get(item, "Issue Title"),
         creator |-> Get(item, CreatorKey),
         publicationtype |-> Get(item, "Type of Periodical"),
         author_name |-> Get(item, "Creator")]
        @@ Descriptions(item, nd)
        @@ SetIf(ListTruthy(tags), "tags", tags)
        @@ SetIf(ListTruthy(tags_spanish), "tags_spanish", tags_spanish)
        @@ OptionalFields(item)
        @@ SetIf(HasKeywords(tags, tags_spanish), "keywords",
                 KeywordList(tags, tags_spanish))

-----------------------------------------------------------------------------
(* Object storage *)

\* the bytes stored under a key
Body(key) == <<"bytes">> \o key

\* key.split("/")[-1]
FilenameOnly(key) == LET parts == Split(key, "/") IN parts[Len(parts)]

\* retrieve_files_for_metadata: the entry appended for a key
FileEntry(key) == [file |-> <<FilenameOnly(key), Body(key)>>]

\* one response of list_objects_v2(Prefix=prefix): the first MaxKeys matching
\* keys; "Contents" is absent when nothing matches
ListObjectsV2(bkt, prefix) ==
    LET matching == SelectSeq(bkt, LAMBDA key : IsPrefix(prefix, key))
        n == IF Len(matching) > MaxKeys THEN MaxKeys ELSE Len(matching)
    IN  [IsTruncated |-> Len(matching) > MaxKeys]
        @@ SetIf(n > 0, "Contents", SubSeq(matching, 1, n))

\* a gate that looks at Pages alone
GateClosed_IgnoresPrefix(item) == ~ListTruthy(separate_list(Get(item, "Pages")))

\* split_filenames: `if not filenames or not prefix: return keys`
GateClosed(item) ==
    LET prefix == GetOr(item, "Identifier", <<>>)
        pages == separate_list(Get(item, "Pages"))
    IN  ~ListTruthy(pages) \/ ~Truthy(prefix)

\* split_filenames: the keys collected from the response
CollectKeys(response) ==
    IF "Contents" \in DOMAIN response /\ response["Contents"] # <<>>
    THEN Range(response["Contents"])
    ELSE {}

\* a listing that passes no Prefix
ListedKeys_NoPrefix(bkt, prefix) == CollectKeys(ListObjectsV2(bkt, <<>>))

\* split_filenames: the list call and the loop over its Contents
ListedKeys(bkt, prefix) == CollectKeys(ListObjectsV2(bkt, prefix))

\* a resolver that keeps only the keys whose filename Pages names
ResolvedKeys_FilteredByPages(item, bkt) ==
    {key \in ListedKeys(bkt, GetOr(item, "Identifier", <<>>)) :
        FilenameOnly(key) \in Range(OrEmpty(separate_list(Get(item, "Pages"))))}

\* split_filenames past the gate: Pages is not read again
ResolvedKeys(item, bkt) == ListedKeys(bkt, GetOr(item, "Identifier", <<>>))

-----------------------------------------------------------------------------
(* Remote calls *)

DOIs == 1..(MaxItems + 1)

NoFile == EmptyDict

\* one remote call: op is "mapper", "list", "get", "create" or "add_file";
\* rec is the position in issue_data of the record it was made for; key is the
\* Prefix of a list call or the Key of a get call; doi is the persistentId a
\* create call returned or the doi an add_file call carried; ok is whether the
\* call returned without raising
Call(op, rec, key, d, file, ok) ==
    [op |-> op, rec |-> rec, key |-> key, doi |-> d, file |-> file, ok |-> ok]

CallsOf(rec, op) ==
    SelectSeq(calls, LAMBDA c : c.rec = rec /\ c.op = op)

\* an upload whose json_data lacks the doi
AddFileCall_WithoutDoi(rec, d, file, ok) ==
    Call("add_file", rec, <<>>, NoDoi, file, ok)

\* add_file: the POST to /file-upload/ with files=file and json_data.doi = doi
AddFileCall(rec, d, file, ok) == Call("add_file", rec, <<>>, d, file, ok)

-----------------------------------------------------------------------------
(* The flow ingest_to_dataverse and the sub-flow process_item *)

locals == <<asset, metadata, filenames, todo, acc, files, doi, nfile>>

LocalsReset ==
    /\ asset' = EmptyDict
    /\ metadata' = EmptyDict
    /\ filenames' = {}
    /\ todo' = {}
    /\ acc' = <<>>
    /\ files' = <<>>
    /\ doi' = NoDoi
    /\ nfile' = 0

\* a process_item that resolves the files before it calls the mapper
LoopAt_ResolveFirst(n) == IF n <= Len(issue_data) THEN "split" ELSE "finished"

\* `for item in issue_data:` with the loop variable at position n
LoopAt(n) == IF n <= Len(issue_data) THEN "map" ELSE "finished"

\* ingest_to_dataverse up to the loop: the four get_file_object loads, any of
\* which may raise, and the index build
Start ==
    /\ pc = "start"
    /\ \E ok \in BOOLEAN :
          IF ok
          THEN /\ newspaper_data' = transform_newspaper_level_fn(newspaper_orig_data)
               /\ idx' = 1
               /\ pc' = LoopAt(1)
          ELSE /\ pc' = "halted"
               /\ UNCHANGED <<newspaper_data, idx>>
    /\ UNCHANGED <<inputs, locals, calls, issued>>

\* a mapper call that is made again after it failed
MapperNext_Retry(ok) == IF ok THEN "split" ELSE "map"

\* a mapper failure that is not raised
MapperNext_Swallowed(ok) == "split"

\* response.raise_for_status() of the mapper call
MapperNext(ok) == IF ok THEN "split" ELSE "halted"

\* the task map_item_to_metadata
MapItemToMetadata ==
    /\ pc = "map"
    /\ \E ok \in BOOLEAN :
          /\ asset' = NormalizedAsset(issue_data[idx], newspaper_data)
          /\ calls' = Append(calls, Call("mapper", idx, <<>>, NoDoi, NoFile, ok))
          /\ metadata' = IF ok THEN [mapped |-> asset'] ELSE metadata
          /\ pc' = MapperNext(ok)
    /\ UNCHANGED <<inputs, newspaper_data, idx, filenames, todo, acc, files,
                   doi, nfile, issued>>

\* the task split_filenames; its result is what retrieve_files_for_metadata
\* then iterates over
SplitFilenames ==
    /\ pc = "split"
    /\ LET item == issue_data[idx]
           prefix == GetOr(item, "Identifier", <<>>)
       IN  IF GateClosed(item)
           THEN /\ filenames' = {}
                /\ pc' = "fetch"
                /\ UNCHANGED calls
           ELSE \E ok \in BOOLEAN :
                   /\ calls' = Append(calls,
                                      Call("list", idx, prefix, NoDoi, NoFile, ok))
                   /\ filenames' = IF ok
                                   THEN ResolvedKeys(item, bucket)
                                   ELSE filenames
                   /\ pc' = IF ok THEN "fetch" ELSE "halted"
    /\ todo' = filenames'
    /\ acc' = <<>>
    /\ UNCHANGED <<inputs, newspaper_data, idx, asset, metadata, files, doi,
                   nfile, issued>>

\* a get_object failure that is caught and passed over
FetchNext_Swallowed(ok) == "fetch"

\* s3_client.get_object raising or not
FetchNext(ok) == IF ok THEN "fetch" ELSE "halted"

\* retrieve_files_for_metadata: one iteration of `for key in filename_keys`,
\* a set, so in any order
GetObject ==
    /\ pc = "fetch"
    /\ \E key \in todo, ok \in BOOLEAN :
          /\ calls' = Append(calls, Call("get", idx, key, NoDoi, NoFile, ok))
          /\ acc' = IF ok
                    THEN Append(acc, FileEntry(key))
                    ELSE acc
          /\ todo' = IF ok THEN todo \ {key} ELSE todo
          /\ pc' = FetchNext(ok)
    /\ UNCHANGED <<inputs, newspaper_data, idx, asset, metadata, filenames,
                   files, doi, nfile, issued>>

\* retrieve_files_for_metadata: `return files`
RetrieveFilesReturn ==
    /\ pc = "fetch"
    /\ todo = {}
    /\ files' = acc
    /\ pc' = "ingest"
    /\ UNCHANGED <<inputs, newspaper_data, idx, asset, metadata, filenames,
                   todo, acc, doi, nfile, calls, issued>>

\* a create call that is made again after it failed
IngestNext_Retry(ok, d) == IF ok /\ d # NoDoi THEN "attach" ELSE "ingest"

\* a create response that is never checked
IngestNext_Unchecked(ok, d) == "attach"

\* response.raise_for_status() of the create call, then
\* ingest_resp.json()["data"]["persistentId"], a KeyError when d = NoDoi
IngestNext(ok, d) == IF ok /\ d # NoDoi THEN "attach" ELSE "halted"

\* the task ingest_metadata and the read of the persistent identifier; the
\* repository mints an identifier it has not issued before
IngestMetadata ==
    /\ pc = "ingest"
    /\ \E ok \in BOOLEAN, d \in {NoDoi} \cup (DOIs \ issued) :
          /\ ~ok => d = NoDoi
          /\ calls' = Append(calls, Call("create", idx, <<>>, d, NoFile, ok))
          /\ issued' = issued \cup ({d} \ {NoDoi})
          /\ doi' = IF IngestNext(ok, d) = "attach" THEN d ELSE doi
          /\ nfile' = IF IngestNext(ok, d) = "attach" THEN 1 ELSE nfile
          /\ pc' = IngestNext(ok, d)
    /\ UNCHANGED <<inputs, newspaper_data, idx, asset, metadata, filenames,
                   todo, acc, files>>

\* an upload failure that is caught so that the loop goes on
AttachNext_Continue(ok) == "attach"

\* response.raise_for_status() of the file-upload call
AttachNext(ok) == IF ok THEN "attach" ELSE "halted"

\* one iteration of `for f in files:`: the task add_file
AddFile ==
    /\ pc = "attach"
    /\ nfile <= Len(files)
    /\ \E ok \in BOOLEAN :
          /\ calls' = Append(calls, AddFileCall(idx, doi, files[nfile], ok))
          /\ nfile' = IF AttachNext(ok) = "attach" THEN nfile + 1 ELSE nfile
          /\ pc' = AttachNext(ok)
    /\ UNCHANGED <<inputs, newspaper_data, idx, asset, metadata, filenames,
                   todo, acc, files, doi, issued>>

\* a loop over the files that can be left before the last file
AttachLoopDone_Early(n, fs) == TRUE

\* `for f in files:` is exhausted
AttachLoopDone(n, fs) == n > Len(fs)

\* process_item returns and the loop of ingest_to_dataverse moves on
ProcessItemReturn ==
    /\ pc = "attach"
    /\ AttachLoopDone(nfile, files)
    /\ idx' = idx + 1
    /\ pc' = LoopAt(idx + 1)
    /\ LocalsReset
    /\ UNCHANGED <<inputs, newspaper_data, calls, issued>>

Next ==
    \/ Start
    \/ MapItemToMetadata
    \/ SplitFilenames
    \/ GetObject
    \/ RetrieveFilesReturn
    \/ IngestMetadata
    \/ AddFile
    \/ ProcessItemReturn

-----------------------------------------------------------------------------
(* Runs over whole issue lists *)

InitFlow ==
    /\ newspaper_data = EmptyDict
    /\ idx = 0
    /\ pc = "start"
    /\ asset = EmptyDict
    /\ metadata = EmptyDict
    /\ filenames = {}
    /\ todo = {}
    /\ acc = <<>>
    /\ files = <<>>
    /\ doi = NoDoi
    /\ nfile = 0
    /\ calls = <<>>
    /\ issued = {}

RunIdentifiers == {<<>>, <<"a">>, <<"b">>, <<"c">>}
RunPages == {<<>>, <<"p">>}
RunItems ==
    {[Identifier |-> i, Pages |-> p] : i \in RunIdentifiers, p \in RunPages}
RunBucket == << <<"a", "/", "1">>, <<"a", "/", "2">>, <<"b", "/", "1">> >>
RunPublications ==
    << [Identifier |-> <<"a">>, Abstract |-> <<"x">>] >>

Init ==
    /\ newspaper_orig_data = RunPublications
    /\ issue_data \in UNION {[1..n -> RunItems] : n \in 0..MaxItems}
    /\ bucket = RunBucket
    /\ InitFlow

Spec == Init /\ [][Next]_vars

-----------------------------------------------------------------------------
(* Single records drawn from wide input sets, taken through the tasks that *)
(* read them                                                               *)

AllKeys ==
    << <<"a", "/", "1">>, <<"a", "/", "2">>, <<"a", "b", "/", "1">>,
       <<"b", "/", "1">> >>

\* every bucket holding some of AllKeys, in listing order
Buckets ==
    {SelectSeq(AllKeys, LAMBDA key : key \in chosen) : chosen \in SUBSET Range(AllKeys)}

PagesValues == {Absent, None} \cup Strings({"1", ";", " "}, MaxPagesLen)
IdentifierValues == {Absent, None, <<>>, <<"a">>, <<"b">>, <<"a", "b">>}

\* split_filenames over every Identifier, Pages and bucket
InitResolve ==
    /\ newspaper_orig_data = <<>>
    /\ \E i \in IdentifierValues, p \in PagesValues :
          issue_data = << DictOf([Identifier |-> i, Pages |-> p]) >>
    /\ bucket \in Buckets
    /\ InitFlow

NextResolve == Start \/ MapItemToMetadata \/ SplitFilenames

SpecResolve == InitResolve /\ [][NextResolve]_vars

PubIdentifiers == {Absent, None, <<>>, <<"a">>, <<"b">>}
PubAbstracts == {Absent, None, <<>>, <<"x">>}
PubAbstractsSpan == {Absent, <<"z">>}
Publications ==
    {DictOf(("Identifier" :> i) @@ ("Abstract" :> a) @@ ("Abstract [SPAN]" :> z)) :
        i \in PubIdentifiers, a \in PubAbstracts, z \in PubAbstractsSpan}

\* the index build and the description lookups over every publication list
InitDescr ==
    /\ newspaper_orig_data \in UNION {[1..n -> Publications] : n \in 0..MaxPubs}
    /\ \E i \in {Absent, None, <<>>, <<"a">>, <<"b">>} :
          issue_data = << DictOf([Identifier |-> i]) >>
    /\ bucket = <<>>
    /\ InitFlow

NextNormalize == Start \/ MapItemToMetadata

SpecDescr == InitDescr /\ [][NextNormalize]_vars

TagsValues == {Absent, None} \cup Strings({"a", "b", ";", " "}, MaxTagLen)
TagsSpanValues == {Absent, None} \cup Strings({"c", ";", " "}, MaxTagLen)

\* the tag fields over every pair of tag strings
InitTags ==
    /\ newspaper_orig_data = <<>>
    /\ \E t \in TagsValues, ts \in TagsSpanValues :
          issue_data = << DictOf(("Tags" :> t) @@ ("Tags [SPAN]" :> ts)) >>
    /\ bucket = <<>>
    /\ InitFlow

SpecTags == InitTags /\ [][NextNormalize]_vars

-----------------------------------------------------------------------------
(* Properties of the per-record pipeline *)

Records == 1..Len(issue_data)

HasFailed(r, op) ==
    \E j \in DOMAIN calls :
        calls[j].op = op /\ calls[j].rec = r /\ ~calls[j].ok

\* the create call of record r returned a persistent identifier
Created(r) ==
    \E j \in DOMAIN calls :
        /\ calls[j].op = "create" /\ calls[j].rec = r
        /\ calls[j].ok /\ calls[j].doi # NoDoi

LastCall == calls[Len(calls)]

\* C1: a record whose mapper call failed has no create call and no add_file
\* call, in any state of any run.
C1_MapperFailureCreatesNothing ==
    \A r \in Records :
        HasFailed(r, "mapper")
        => CallsOf(r, "create") = <<>> /\ CallsOf(r, "add_file") = <<>>

\* the mapper has failed for a second record that has two files in storage,
\* after the first record had a file attached
C1_Witness ==
    /\ Len(issue_data) = 2
    /\ issue_data[2] = [Identifier |-> <<"a">>, Pages |-> <<"p">>]
    /\ HasFailed(2, "mapper")
    /\ CallsOf(1, "add_file") # <<>>
    /\ pc = "halted"

\* the files of record r that were fetched
Fetched(r) ==
    SelectSeq(calls, LAMBDA c : c.rec = r /\ c.op = "get" /\ c.ok)

RunOver == pc \in {"halted", "finished"}

\* C2 as stated: when the run is over, every created record has had one
\* add_file attempt per fetched file, whether or not an earlier one failed.
C2_Original ==
    RunOver =>
        \A r \in Records :
            Created(r) => Len(CallsOf(r, "add_file")) = Len(Fetched(r))

\* C2 as amended: a failed add_file call leaves the created record and its
\* identifier in place but is the last call of the run: the flow halts and no
\* add_file is attempted for a later file.
C2_AttachFailureHalts ==
    \A j \in DOMAIN calls :
        (calls[j].op = "add_file" /\ ~calls[j].ok)
        => /\ j = Len(calls)
           /\ pc = "halted"
           /\ calls[j].doi \in issued
           /\ Created(calls[j].rec)

\* the first of two fetched files failed to attach
C2_Witness ==
    /\ pc = "halted"
    /\ Len(files) = 2
    /\ nfile = 1
    /\ calls # <<>>
    /\ LastCall.op = "add_file"
    /\ ~LastCall.ok

\* the add_file calls of record r that uploaded the object stored under key
AttachesOf(r, key) ==
    {j \in DOMAIN calls :
        /\ calls[j].op = "add_file" /\ calls[j].rec = r
        /\ calls[j].file = FileEntry(key)}

AttachesCarry(r, d) ==
    \A j \in DOMAIN calls :
        (calls[j].op = "add_file" /\ calls[j].rec = r) => calls[j].doi = d

AttachedExactlyOnce(r) ==
    /\ \A key \in filenames : Cardinality(AttachesOf(r, key)) = 1
    /\ Len(CallsOf(r, "add_file")) = Cardinality(filenames)
    /\ AttachesCarry(r, doi)

ProcessItemReturns == pc = "attach" /\ nfile > Len(files)

\* C3 as stated: once process_item is over for a record whose mapper and
\* create calls succeeded, each resolved key has exactly one add_file call,
\* all carrying the record's identifier.
C3_Original ==
    ((pc = "halted" \/ ProcessItemReturns) /\ doi # NoDoi)
    => AttachedExactlyOnce(idx)

\* C3 as amended: that holds for the records none of whose add_file calls
\* fails; for every created record no key is attached twice and every
\* add_file call carries the identifier.
C3_AttachedOnceWhenNoneFails ==
    /\ ProcessItemReturns => AttachedExactlyOnce(idx)
    /\ doi # NoDoi =>
          /\ \A key \in filenames : Cardinality(AttachesOf(idx, key)) <= 1
          /\ AttachesCarry(idx, doi)

\* process_item is about to return for a record with two resolved keys
C3_Witness ==
    /\ ProcessItemReturns
    /\ Cardinality(filenames) = 2
    /\ Len(CallsOf(idx, "add_file")) = 2

\* C4: every add_file call comes after a create call of the same record that
\* returned a persistent identifier; a create call that failed or returned
\* none is the last call of the run, so the fetched files are never used.
C4_AttachOnlyAfterCreate ==
    /\ \A j \in DOMAIN calls :
          calls[j].op = "add_file"
          => \E i \in 1..(j - 1) :
                /\ calls[i].op = "create" /\ calls[i].rec = calls[j].rec
                /\ calls[i].ok /\ calls[i].doi # NoDoi
    /\ \A i \in DOMAIN calls :
          (calls[i].op = "create" /\ (~calls[i].ok \/ calls[i].doi = NoDoi))
          => /\ CallsOf(calls[i].rec, "add_file") = <<>>
             /\ i = Len(calls)
             /\ pc = "halted"

\* the create response of a record with fetched files lacks persistentId
C4_Witness ==
    /\ pc = "halted"
    /\ files # <<>>
    /\ calls # <<>>
    /\ LastCall.op = "create"
    /\ LastCall.ok
    /\ LastCall.doi = NoDoi

\* C10: a failed get_object is the last call of the run: the record has no
\* create and no add_file call, and process_item never receives a file list.
C10_FetchFailureAborts ==
    \A j \in DOMAIN calls :
        (calls[j].op = "get" /\ ~calls[j].ok)
        => /\ CallsOf(calls[j].rec, "create") = <<>>
           /\ CallsOf(calls[j].rec, "add_file") = <<>>
           /\ j = Len(calls)
           /\ pc = "halted"
           /\ files = <<>>

\* the second of two keys failed to fetch after the first was read
C10_Witness ==
    /\ pc = "halted"
    /\ Len(acc) = 1
    /\ Cardinality(todo) = 1
    /\ calls # <<>>
    /\ LastCall.op = "get"
    /\ ~LastCall.ok

-----------------------------------------------------------------------------
(* Properties of split_filenames *)

\* a Pages value that names no file: absent, null, or nothing but separators
\* and blanks
PagesEmpty(item) ==
    \/ "Pages" \notin DOMAIN item
    \/ item["Pages"] = None
    \/ \A j \in DOMAIN item["Pages"] : item["Pages"][j] \in {";", " "}

IdentifierEmpty(item) ==
    \/ "Identifier" \notin DOMAIN item
    \/ item["Identifier"] \in {None, <<>>}

\* split_filenames has returned for the current record
SplitReturned == pc \in {"fetch", "ingest", "attach"}

\* C5: a record with empty Pages or an empty or absent Identifier has no list
\* call, and split_filenames returns the empty set for it.
C5_EmptyGateNoListCall ==
    \A r \in Records :
        (PagesEmpty(issue_data[r]) \/ IdentifierEmpty(issue_data[r]))
        => /\ CallsOf(r, "list") = <<>>
           /\ (r = idx /\ SplitReturned) => filenames = {}

\* split_filenames returned for a record whose Pages is blanks and a
\* separator, while storage holds objects under its Identifier
C5_Witness ==
    /\ pc = "fetch"
    /\ issue_data[1] = [Identifier |-> <<"a">>, Pages |-> <<" ", ";">>]
    /\ \E j \in DOMAIN bucket : IsPrefix(<<"a">>, bucket[j])
    /\ filenames = {}

\* C6 as stated: for non-empty Pages and Identifier, split_filenames returns
\* exactly the storage keys that begin with the Identifier, however the
\* listing is paginated.
C6_Original ==
    (SplitReturned /\ ~PagesEmpty(issue_data[idx])
                   /\ ~IdentifierEmpty(issue_data[idx]))
    => filenames =
          {key \in Range(bucket) : IsPrefix(issue_data[idx]["Identifier"], key)}

-----------------------------------------------------------------------------
(* Properties of the normalized asset *)

\* map_item_to_metadata has built the asset of the current record
AssetBuilt == DOMAIN asset # {}

\* what C7 expects of a lookup
C7_Expected(identifier, field_name) ==
    IF \/ identifier \notin DOMAIN newspaper_data
       \/ field_name \notin DOMAIN newspaper_data[identifier]
       \/ ~Truthy(newspaper_data[identifier][field_name])
    THEN Placeholder
    ELSE newspaper_data[identifier][field_name]

\* C7 as stated: each lookup gives "placeholder" when the identifier is not in
\* the index, the field is missing or its value is falsy, and the field's
\* value otherwise.
C7_Original ==
    AssetBuilt =>
        LET identifier == GetOr(issue_data[idx], "Identifier", <<>>)
        IN  /\ asset["description"] = C7_Expected(identifier, "Abstract")
            /\ asset["description_spanish"] =
                   C7_Expected(identifier, "Abstract [SPAN]")

\* C8: when the record has no Identifier or its Identifier is not a key of the
\* index, description and description_spanish are both "placeholder".
C8_AbsentIdentifierPlaceholder ==
    (AssetBuilt /\ (\/ "Identifier" \notin DOMAIN issue_data[idx]
                    \/ issue_data[idx]["Identifier"] \notin DOMAIN newspaper_data))
    => /\ asset["description"] = Placeholder
       /\ asset["description_spanish"] = Placeholder

\* the asset of a record with Identifier "b" was built against an index that
\* holds an abstract for "a" only
C8_Witness ==
    /\ AssetBuilt
    /\ issue_data[1] = [Identifier |-> <<"b">>]
    /\ DOMAIN newspaper_data = {<<"a">>}
    /\ Get(newspaper_data[<<"a">>], "Abstract") = <<"x">>
    /\ asset["description"] = Placeholder

\* C9: keywords is the parsed Spanish tags followed by the parsed native
\* tags, and the key is present exactly when one of the two lists is
\* non-empty.
C9_KeywordsSpanishFirst ==
    AssetBuilt =>
        LET native == OrEmpty(separate_list(Get(issue_data[idx], "Tags")))
            spanish == OrEmpty(separate_list(Get(issue_data[idx], "Tags [SPAN]")))
        IN  /\ "keywords" \in DOMAIN asset <=> (native # <<>> \/ spanish # <<>>)
            /\ "keywords" \in DOMAIN asset => asset["keywords"] = spanish \o native

\* Tags "a;b" and Tags [SPAN] "c" gave keywords c, a, b
C9_Witness ==
    /\ AssetBuilt
    /\ Get(issue_data[1], "Tags") = <<"a", ";", "b">>
    /\ Get(issue_data[1], "Tags [SPAN]") = <<"c">>
    /\ asset["keywords"] = << <<"c">>, <<"a">>, <<"b">> >>

-----------------------------------------------------------------------------
(* Properties of whole runs *)

\* a call after which process_item cannot go on: it raised, or it is a create
\* call whose response holds no persistentId
Fatal(c) == ~c.ok \/ (c.op = "create" /\ c.doi = NoDoi)

\* C11: a fatal failure of any call halts the run: the failing call is the
\* last remote call made, for its record and for every later one, and the
\* flow stays halted.
C11_FailureHaltsRun ==
    /\ \A j \in DOMAIN calls :
          Fatal(calls[j]) => j = Len(calls) /\ pc = "halted"
    /\ pc = "halted" =>
          /\ ~ENABLED Next
          /\ \A r \in Records : r > idx => \A j \in DOMAIN calls : calls[j].rec # r

\* the upload of the first record's first file failed while a second record
\* with files in storage was still to come
C11_Witness ==
    /\ pc = "halted"
    /\ idx = 1
    /\ Len(issue_data) = 2
    /\ issue_data[2] = [Identifier |-> <<"b">>, Pages |-> <<"p">>]
    /\ calls # <<>>
    /\ LastCall.op = "add_file"
    /\ ~LastCall.ok

\* C12: no call is repeated: each record has at most one mapper call, at most
\* one create call and at most one add_file call per fetched file, and no
\* more identifiers are minted than records were submitted.
C12_NoRetries ==
    /\ \A r \in Records :
          /\ Len(CallsOf(r, "mapper")) <= 1
          /\ Len(CallsOf(r, "create")) <= 1
          /\ \A j, k \in DOMAIN calls :
                (/\ calls[j].op = "add_file" /\ calls[j].rec = r
                 /\ calls[k].op = "add_file" /\ calls[k].rec = r
                 /\ calls[j].file = calls[k].file)
                => j = k
          /\ Len(CallsOf(r, "add_file")) <= Len(Fetched(r))
    /\ Cardinality(issued) <= Len(issue_data)

\* the create call of a second record failed after the first record was
\* created and had both its files uploaded
C12_Witness ==
    /\ pc = "halted"
    /\ idx = 2
    /\ Len(CallsOf(1, "add_file")) = 2
    /\ Len(CallsOf(1, "create")) = 1
    /\ HasFailed(2, "create")

-----------------------------------------------------------------------------
(* Properties of the optional fields and of the index *)

OptionalSourceValues == {Absent, None, <<>>, <<"x">>}

\* the optional source fields over every mix of absent, null, empty and set
InitOptional ==
    /\ newspaper_orig_data = <<>>
    /\ \E l, d, c, t, y \in OptionalSourceValues :
          issue_data =
              << DictOf(("Language" :> l) @@ ("Single Dates" :> d)
                        @@ ("Coverage-Spatial" :> c)
                        @@ ("Issue Title [SPAN]" :> t)
                        @@ ("Type of Periodical [SPAN]" :> y)) >>
    /\ bucket = <<>>
    /\ InitFlow

SpecOptional == InitOptional /\ [][NextNormalize]_vars

\* each optional key of the asset with the field of the record it is read from
OptionalSource ==
    [language |-> "Language",
     production_date |-> "Single Dates",
     production_place |-> "Coverage-Spatial",
     issue_title_spanish |-> "Issue Title [SPAN]",
     publicationtype_spanish |-> "Type of Periodical [SPAN]"]

SourceTruthy(item, field) ==
    /\ field \in DOMAIN item
    /\ item[field] # None
    /\ item[field] # <<>>

IndexBuilt == idx >= 1

\* the position of the last record of newspaper_orig_data with identifier id
LastOccurrence(id) ==
    CHOOSE j \in DOMAIN newspaper_orig_data :
        /\ Get(newspaper_orig_data[j], "Identifier") = id
        /\ \A k \in DOMAIN newspaper_orig_data :
              Get(newspaper_orig_data[k], "Identifier") = id => k <= j

\* C14: the keys of the index are exactly the truthy Identifier values of the
\* input, each mapped to the whole record of its last occurrence; a record
\* without a truthy Identifier adds no key.
C14_IndexLastWriteWins ==
    IndexBuilt =>
        /\ DOMAIN newspaper_data =
               {Get(newspaper_orig_data[j], "Identifier") :
                   j \in {k \in DOMAIN newspaper_orig_data :
                            SourceTruthy(newspaper_orig_data[k], "Identifier")}}
        /\ \A id \in DOMAIN newspaper_data :
               newspaper_data[id] = newspaper_orig_data[LastOccurrence(id)]

\* an index built from two different records that share the identifier "a"
C14_Witness ==
    /\ IndexBuilt
    /\ Len(newspaper_orig_data) = 2
    /\ Get(newspaper_orig_data[1], "Identifier") = <<"a">>
    /\ Get(newspaper_orig_data[2], "Identifier") = <<"a">>
    /\ newspaper_orig_data[1] # newspaper_orig_data[2]
    /\ newspaper_data[<<"a">>] = newspaper_orig_data[2]

-----------------------------------------------------------------------------
(* Properties of the order of the calls *)

\* C15 as stated: every storage list and get call of a record is made before
\* the record's mapper call.
C15_Original ==
    \A i, j \in DOMAIN calls :
        (/\ calls[i].rec = calls[j].rec
         /\ calls[i].op \in {"list", "get"}
         /\ calls[j].op = "mapper")
        => i < j

\* the place of each kind of call in process_item
StageOf(op) ==
    CASE op = "mapper" -> 1
      [] op = "list" -> 2
      [] op = "get" -> 3
      [] op = "create" -> 4
      [] op = "add_file" -> 5

\* record r has a call of kind op that returned, before position j
ReturnedBefore(r, op, j) ==
    \E i \in 1..(j - 1) :
        calls[i].rec = r /\ calls[i].op = op /\ calls[i].ok

\* C15 as amended: the calls of a record come in the order mapper, list, get,
\* create, add_file, each stage starting only when the one before it has
\* returned; the mapper call precedes every storage call of the record.
C15_MapperBeforeStorage ==
    /\ \A i, j \in DOMAIN calls :
          (calls[i].rec = calls[j].rec /\ i < j)
          => StageOf(calls[i].op) <= StageOf(calls[j].op)
    /\ \A j \in DOMAIN calls :
          /\ calls[j].op # "mapper"
                => ReturnedBefore(calls[j].rec, "mapper", j)
          /\ calls[j].op = "get"
                => ReturnedBefore(calls[j].rec, "list", j)
          /\ calls[j].op = "add_file"
                => /\ ReturnedBefore(calls[j].rec, "create", j)
                   /\ ReturnedBefore(calls[j].rec, "get", j)

\* a record has had a call of each of the five kinds
C15_Witness ==
    \E r \in Records :
        \A op \in {"mapper", "list", "get", "create", "add_file"} :
            CallsOf(r, op) # <<>>

\* every stage of record r has run to its end: it was created and each of its
\* fetched files has had its upload
Completed(r) ==
    /\ Created(r)
    /\ Len(SelectSeq(calls, LAMBDA c : c.rec = r /\ c.op = "add_file" /\ c.ok))
           = Len(Fetched(r))
    /\ \A j \in DOMAIN calls : calls[j].rec = r => ~Fatal(calls[j])

\* C16: the calls of different records never interleave: the log is ordered by
\* position in issue_data, and a record has a call only when each record
\* before it has completed all its stages.
C16_RecordsSequential ==
    /\ \A i, j \in DOMAIN calls : i < j => calls[i].rec <= calls[j].rec
    /\ \A j \in DOMAIN calls :
          \A r \in 1..(calls[j].rec - 1) : Completed(r)

\* the second record is being fetched after the first had two files uploaded
C16_Witness ==
    /\ idx = 2
    /\ pc = "fetch"
    /\ CallsOf(2, "get") # <<>>
    /\ Len(CallsOf(1, "add_file")) = 2

-----------------------------------------------------------------------------
(* Properties of the resolved keys across records *)

\* the keys of one list response for a prefix: the matching keys that have
\* fewer than MaxKeys matching keys before them in the listing
FirstPage(prefix) ==
    {bucket[j] : j \in
        {k \in DOMAIN bucket :
            /\ IsPrefix(prefix, bucket[k])
            /\ Cardinality({m \in 1..k : IsPrefix(prefix, bucket[m])}) <= MaxKeys}}

\* C17: once Pages parses to at least one entry, the resolved keys are the
\* listed keys under the Identifier prefix whatever Pages holds: a function of
\* the Identifier and the bucket alone.
C17_PagesOnlyGate ==
    (SplitReturned /\ ~PagesEmpty(issue_data[idx])
                   /\ ~IdentifierEmpty(issue_data[idx]))
    => filenames = FirstPage(issue_data[idx]["Identifier"])

\* Pages names the file 1 alone and both a/1 and a/2 were resolved
C17_Witness ==
    /\ pc = "fetch"
    /\ issue_data[1] = [Identifier |-> <<"a">>, Pages |-> <<"1">>]
    /\ filenames = {<<"a", "/", "1">>, <<"a", "/", "2">>}

Uploaded(r) ==
    SelectSeq(calls, LAMBDA c : c.rec = r /\ c.op = "add_file" /\ c.ok)

\* record r was created and has fewer files uploaded than were fetched for it
PartiallyIngested(r) == Created(r) /\ Len(Uploaded(r)) < Len(Fetched(r))

\* C18: at most one record is partially ingested; every record before the
\* current one is created with all its fetched files uploaded, and no record
\* after it has had a call.
C18_OnePartialRecord ==
    /\ Cardinality({r \in Records : PartiallyIngested(r)}) <= 1
    /\ \A r \in Records :
          /\ r < idx => Created(r) /\ Len(Uploaded(r)) = Len(Fetched(r))
          /\ r > idx => \A j \in DOMAIN calls : calls[j].rec # r
          /\ PartiallyIngested(r) => r = idx

\* the second record has one of its two files uploaded, after a first record
\* that had files
C18_Witness ==
    /\ idx = 2
    /\ PartiallyIngested(2)
    /\ Len(Uploaded(2)) = 1
    /\ Uploaded(1) # <<>>

-----------------------------------------------------------------------------
(* Properties of records without files and of the uploads *)

\* the create call of the current record, which resolved no key, was the last
\* call made
SubmittedWithoutFiles ==
    /\ filenames = {}
    /\ calls # <<>>
    /\ LastCall.op = "create"
    /\ LastCall.rec = idx

\* C19 as stated: a record that resolved no key and whose mapper call
\* succeeded has exactly one create call, no add_file call, and completes
\* without error.
C19_Original ==
    SubmittedWithoutFiles =>
        /\ Len(CallsOf(idx, "create")) = 1
        /\ CallsOf(idx, "add_file") = <<>>
        /\ ProcessItemReturns

\* C19 as amended: such a record is still submitted, with exactly one create
\* call and no add_file call, and completes without error when that create
\* call returns a persistent identifier.
C19_EmptySetStillSubmitted ==
    /\ (pc = "ingest" /\ filenames = {}) =>
          /\ files = <<>>
          /\ CallsOf(idx, "create") = <<>>
          /\ ENABLED IngestMetadata
    /\ SubmittedWithoutFiles =>
          /\ Len(CallsOf(idx, "create")) = 1
          /\ CallsOf(idx, "add_file") = <<>>
          /\ pc = (IF Created(idx) THEN "attach" ELSE "halted")
          /\ Created(idx) => ProcessItemReturns /\ ENABLED ProcessItemReturn

\* a record whose Identifier has no object in storage was listed, created and
\* is about to return
C19_Witness ==
    /\ ProcessItemReturns
    /\ issue_data[idx] = [Identifier |-> <<"c">>, Pages |-> <<"p">>]
    /\ CallsOf(idx, "list") # <<>>
    /\ Created(idx)
    /\ CallsOf(idx, "add_file") = <<>>

\* C20: an add_file call of a record carries the identifier that the record's
\* own create call returned before it, which no other record's create call
\* returned, and uploads the entry of a key that the record fetched and that
\* begins with the record's Identifier.
C20_UploadsBelongToRecord ==
    \A j \in DOMAIN calls :
        calls[j].op = "add_file" =>
            /\ calls[j].doi # NoDoi
            /\ \E i \in 1..(j - 1) :
                  /\ calls[i].op = "create" /\ calls[i].rec = calls[j].rec
                  /\ calls[i].ok /\ calls[i].doi = calls[j].doi
            /\ \A i \in DOMAIN calls :
                  (calls[i].op = "create" /\ calls[i].rec # calls[j].rec)
                  => calls[i].doi # calls[j].doi
            /\ \E g \in 1..(j - 1) :
                  /\ calls[g].op = "get" /\ calls[g].rec = calls[j].rec
                  /\ calls[g].ok
                  /\ calls[j].file = FileEntry(calls[g].key)
                  /\ calls[g].key \in Range(bucket)
                  /\ IsPrefix(issue_data[calls[j].rec]["Identifier"], calls[g].key)

\* a record "b" had its file uploaded after a record "a" had its files
\* uploaded under another identifier
C20_Witness ==
    /\ Len(issue_data) = 2
    /\ issue_data[1]["Identifier"] = <<"a">>
    /\ issue_data[2]["Identifier"] = <<"b">>
    /\ Len(CallsOf(1, "add_file")) = 2
    /\ CallsOf(2, "add_file") # <<>>

=============================================================================
